---- MODULE Spec2Model ----
(***************************************************************************)
(* Model of scutil-parser's dns::parse_text (src/src/dns.rs): a line       *)
(* scanner with five states that assembles resolver records into a global  *)
(* and a scoped sequence.                                                  *)
(*                                                                         *)
(* Text.  A string is a sequence of atoms.  Every character the code       *)
(* splits, strips or matches on is an atom of its own: " " ":" "," "#"     *)
(* "[" "]" "(" ")".  Every other atom is a maximal run of other            *)
(* characters (a word), so two words are never adjacent.  trim, split,     *)
(* starts_with, strip_prefix and the parsers are computed on atoms.        *)
(*                                                                         *)
(* State.  The variables are the locals of parse_text; line_index counts   *)
(* from 0 as in the code.  result is "running" inside the call, "Ok" after *)
(* Ok(dns_config), "Err" after a return Err or a ?, and "panic" after an   *)
(* unwrap or expect that failed.                                           *)
(***************************************************************************)
EXTENDS Integers, Sequences, FiniteSets, TLC

VARIABLES lines, line_index, state, parent_state, current_resolver,
          dns_config, scoped_dns_config, result

vars == <<lines, line_index, state, parent_state, current_resolver,
          dns_config, scoped_dns_config, result>>

-----------------------------------------------------------------------------
(* Text primitives *)

\* Option<T>: None is <<>>, Some(v) is <<v>>.
None == <<>>
Some(v) == <<v>>

RECURSIVE TrimStart(_)
TrimStart(s) ==
    IF s # <<>> /\ Head(s) = " " THEN TrimStart(Tail(s)) ELSE s

RECURSIVE TrimEnd(_)
TrimEnd(s) ==
    IF s # <<>> /\ s[Len(s)] = " " THEN TrimEnd(SubSeq(s, 1, Len(s) - 1)) ELSE s

\* str::trim
Trim(s) == TrimEnd(TrimStart(s))

\* str::split(d) collected: the pieces between the occurrences of atom d;
\* n occurrences give n+1 pieces, empty pieces included.
RECURSIVE SplitFrom(_, _, _)
SplitFrom(s, d, cur) ==
    IF s = <<>> THEN <<cur>>
    ELSE IF Head(s) = d THEN <<cur>> \o SplitFrom(Tail(s), d, <<>>)
    ELSE SplitFrom(Tail(s), d, Append(cur, Head(s)))

Split(s, d) == SplitFrom(s, d, <<>>)

\* Iterator::last of a split: always Some, a split has at least one piece.
Last(q) == q[Len(q)]

\* Words of the vocabulary that have a keyword as a proper character prefix.
ProperPrefixes == { <<"resolver", "resolvers">>, <<"domain", "domains">> }

CharPrefix(p, w) == p = w \/ <<p, w>> \in ProperPrefixes

\* str::starts_with(kw), kw a keyword given as atoms.
StartsWith(s, kw) ==
    /\ Len(s) >= Len(kw)
    /\ \A i \in 1..(Len(kw) - 1) : s[i] = kw[i]
    /\ CharPrefix(kw[Len(kw)], s[Len(kw)])

\* Decimal literals of the vocabulary and their values.
Digits == [t \in {"0", "1", "2", "3", "15"} |->
             CASE t = "0" -> 0 [] t = "1" -> 1 [] t = "2" -> 2
               [] t = "3" -> 3 [] t = "15" -> 15]

\* str::parse::<usize>: Some(n) for a decimal literal, None for anything else.
ParseUsize(s) ==
    IF Len(s) = 1 /\ s[1] \in DOMAIN Digits THEN Some(Digits[s[1]]) ELSE None

\* str::parse::<IpAddr>: the address literals of the vocabulary.
IpLiterals == { <<"10.0.0.1">>, <<"10.0.0.2">>, <<"fe80", ":", ":", "1">> }

ParseIpAddr(s) == IF s \in IpLiterals THEN Some(s) ELSE None

-----------------------------------------------------------------------------
(* ResolverFlags *)

RequestARecordsText == <<"Request", " ", "A", " ", "records">>
RequestAAAARecordsText == <<"Request", " ", "AAAA", " ", "records">>
ScopedText == <<"Scoped">>

\* ResolverFlags::from_str: Ok(flag) is <<"Ok", flag>>, Err is <<"Err">>.
FlagFromStr(s) ==
    CASE s = RequestARecordsText -> <<"Ok", "RequestARecords">>
      [] s = RequestAAAARecordsText -> <<"Ok", "RequestAAAARecords">>
      [] s = ScopedText -> <<"Ok", "Scoped">>
      [] OTHER -> <<"Err">>

IsOk(r) == r[1] = "Ok"

\* Mutant: the flags come out in reverse order.
CollectFlagsReversed(l) ==
    LET pieces == Split(l, ",")
        rs == [i \in 1..Len(pieces) |-> FlagFromStr(Trim(pieces[i]))]
    IN  IF \A i \in 1..Len(rs) : IsOk(rs[i])
        THEN Some([i \in 1..Len(rs) |-> rs[Len(rs) + 1 - i][2]])
        ELSE None

\* l.split(',').map(|s| from_str(s.trim())).collect::<Result<Vec<_>, _>>().ok():
\* Some(the flags in order) when every piece is a flag, None when one is not.
CollectFlags(l) ==
    LET pieces == Split(l, ",")
        rs == [i \in 1..Len(pieces) |-> FlagFromStr(Trim(pieces[i]))]
    IN  IF \A i \in 1..Len(rs) : IsOk(rs[i])
        THEN Some([i \in 1..Len(rs) |-> rs[i][2]])
        ELSE None

\* line.trim().split(':').last().and_then(...) of the flags branch.
DecodeFlags(line) == CollectFlags(Last(Split(Trim(line), ":")))

-----------------------------------------------------------------------------
(* Field decoders.  A decoder's outcome is <<"Ok", v>>, <<"Err">> (the ? or
   return Err path) or <<"Panic">> (an unwrap/expect on None or Err). *)

\* InterfaceIndex::from_str on the trimmed line: the third space-separated
\* piece is the index, the last piece after it (or "") the interface name,
\* with one leading "(" and one trailing ")" stripped.
StripParens(t) ==
    LET a == IF t # <<>> /\ Head(t) = "(" THEN Tail(t) ELSE t
    IN  IF a # <<>> /\ a[Len(a)] = ")" THEN SubSeq(a, 1, Len(a) - 1) ELSE a

InterfaceIndexFromStr(s) ==
    LET split == Split(s, " ")
        rest == SubSeq(split, 4, Len(split))
    IN  IF Len(split) < 3 \/ ParseUsize(split[3]) = None THEN <<"Panic">>
        ELSE <<"Ok", [index |-> ParseUsize(split[3])[1],
                      interface |-> StripParens(IF rest = <<>> THEN <<>>
                                                ELSE Last(rest))]>>

\* First position at or after i that holds no space (Len(s) + 1 when none).
RECURSIVE SkipSpaces(_, _)
SkipSpaces(s, i) ==
    IF i <= Len(s) /\ s[i] = " " THEN SkipSpaces(s, i + 1) ELSE i

\* End of the run of non-space atoms that starts at i (\S+ is greedy).
RECURSIVE RunEnd(_, _)
RunEnd(s, i) ==
    IF i + 1 <= Len(s) /\ s[i + 1] # " " THEN RunEnd(s, i + 1) ELSE i

\* NAMESERVER_PARSER, nameserver\[(?P<ns_id>\d+)\]\s+:\s+(?P<nameserver>\S+),
\* tried with the literal "nameserver" at atom i.
NameserverMatchAt(s, i) ==
    LET c == SkipSpaces(s, i + 4)
        v == SkipSpaces(s, c + 1)
    IN  IF /\ i + 4 <= Len(s)
           /\ s[i] = "nameserver" /\ s[i + 1] = "["
           /\ s[i + 2] \in DOMAIN Digits /\ s[i + 3] = "]"
           /\ c > i + 4 /\ c <= Len(s) /\ s[c] = ":"
           /\ v > c + 1 /\ v <= Len(s)
        THEN Some([ns_id |-> <<s[i + 2]>>,
                   nameserver |-> SubSeq(s, v, RunEnd(s, v))])
        ELSE None

\* Regex::captures: the leftmost match, None when there is none.
NameserverCaptures(s) ==
    LET hits == {i \in 1..Len(s) : NameserverMatchAt(s, i) # None}
    IN  IF hits = {} THEN None
        ELSE NameserverMatchAt(s, CHOOSE i \in hits : \A j \in hits : i <= j)

\* The nameserver branch: captures, then both parses, each unwrapped.
DecodeNameserver(line) ==
    LET m == NameserverCaptures(Trim(line))
    IN  IF m = None THEN <<"Panic">>
        ELSE IF ParseUsize(m[1].ns_id) = None \/ ParseIpAddr(m[1].nameserver) = None
        THEN <<"Panic">>
        ELSE <<"Ok", [ns_id |-> ParseUsize(m[1].ns_id)[1],
                      nameserver |-> ParseIpAddr(m[1].nameserver)[1]]>>

\* line.trim().split(':').last().unwrap().trim() of the scalar branches.
ScalarValue(line) == Trim(Last(Split(Trim(line), ":")))

\* The index of a resolver header: the last space-separated piece of the
\* untrimmed line, "#" stripped, parsed; both steps are expect()ed.
ResolverIndex(line) ==
    LET p == Last(Split(line, " "))
    IN  IF p = <<>> \/ Head(p) # "#" \/ ParseUsize(Tail(p)) = None
        THEN <<"Panic">>
        ELSE <<"Ok", ParseUsize(Tail(p))[1]>>

\* The field keywords in the order the else-if chain tests them.
FieldKeywords ==
    << <<"nameserver">>, <<"search", " ", "domain">>, <<"if_index">>,
       <<"flags">>, <<"reach">>, <<"order">>, <<"timeout">>, <<"options">>,
       <<"domain">> >>

\* The first keyword of the chain that the trimmed line starts with
\* (0 when it starts with none).
FieldKeyword(line) ==
    LET t == Trim(line)
        hits == {i \in 1..Len(FieldKeywords) : StartsWith(t, FieldKeywords[i])}
    IN  IF hits = {} THEN 0 ELSE CHOOSE i \in hits : \A j \in hits : i <= j

-----------------------------------------------------------------------------
(* Inputs.  The text is split into lines before the scan starts; a call is
   modelled from that point, with the lines drawn from two bounded families:
   sequences of chunks (structure) and one block of field lines (decoding). *)

\* The two section header texts.
GlobalHeader == <<"DNS", " ", "configuration">>
ScopedHeader == <<"DNS", " ", "configuration", " ", "(", "for", " ", "scoped",
                  " ", "queries", ")">>

\* ResolverFlags as Display prints them.
FlagText(f) ==
    CASE f = "RequestARecords" -> RequestARecordsText
      [] f = "RequestAAAARecords" -> RequestAAAARecordsText
      [] f = "Scoped" -> ScopedText

ResolverFlags == {"RequestARecords", "RequestAAAARecords", "Scoped"}

\* The decimal literal of n.
Decimal(n) == CHOOSE t \in DOMAIN Digits : Digits[t] = n

Blank == <<>>
ResolverLine(n) == <<"resolver", " ", "#", Decimal(n)>>
Resolver0 == ResolverLine(0)
Resolver1 == ResolverLine(1)
Resolver2 == ResolverLine(2)
NameserverLine(k, ip) ==
    <<" ", " ", "nameserver", "[", Decimal(k), "]", " ", ":", " ">> \o ip
Nameserver0 == NameserverLine(0, <<"10.0.0.1">>)
Nameserver2 == NameserverLine(2, <<"10.0.0.1">>)
Nameserver2Other == NameserverLine(2, <<"fe80", ":", ":", "1">>)
IfIndexLine(n, name) ==
    <<" ", " ", "if_index", " ", ":", " ", Decimal(n), " ", "(", name, ")">>
IfIndex15 == IfIndexLine(15, "en0")
Garbage == <<"garbage">>
Spaces == <<" ", " ">>
IndentedResolver == <<" ", " ">> \o ResolverLine(1)
ResolverNoIndex == <<"resolver">>
IfIndexNoIndex == <<" ", " ", "if_index", " ", ":">>
SearchDomain0 ==
    <<" ", " ", "search", " ", "domain", "[", "0", "]", " ", ":", " ",
      "subdomain.example.com">>

\* "  flags    : " followed by the payload.
FlagsPrefix == <<" ", " ", "flags", " ", " ", " ", " ", ":", " ">>

RECURSIVE JoinFlags(_)
JoinFlags(fs) ==
    IF Len(fs) = 1 THEN FlagText(fs[1])
    ELSE FlagText(fs[1]) \o <<",", " ">> \o JoinFlags(Tail(fs))

\* The flags line that lists fs.
FlagsLine(fs) == FlagsPrefix \o JoinFlags(fs)

FlagsBogus == FlagsPrefix \o <<"Bogus", " ", "flag">>
FlagsHalfBogus == FlagsPrefix \o <<"Scoped", ",", " ", "Bogus", " ", "flag">>

\* The line of test_flags_line.
TestFlagsLine ==
    <<" ", " ", "flags", " ", " ", " ", " ", ":", " ", "Scoped", ",", " ",
      "Request", " ", "A", " ", "records", ",", " ",
      "Request", " ", "AAAA", " ", "records">>

\* "  <keyword> : <value>"
ScalarLine(kw, value) == <<" ", " ", kw, " ", ":", " ">> \o value

MaxChunks == 3
MaxFields == 2

Chunks ==
    { <<GlobalHeader>>, <<ScopedHeader>>, <<Blank>>, <<Resolver0>>,
      <<Resolver1>>, <<Nameserver0>>, <<IfIndex15>>, <<Garbage>>, <<Spaces>>,
      <<GlobalHeader, Blank>>, <<ScopedHeader, Blank>>,
      <<Resolver1, Blank>>, <<Resolver2, IfIndex15, Blank>>,
      <<Nameserver0, IfIndex15>>,
      <<GlobalHeader, Blank, Resolver1, Blank>>,
      <<ScopedHeader, Blank, Resolver2, Blank>> }

RECURSIVE Flatten(_)
Flatten(cs) == IF cs = <<>> THEN <<>> ELSE Head(cs) \o Flatten(Tail(cs))

SeqsUpTo(S, n) == UNION {[1..k -> S] : k \in 0..n}

\* Flag lists of one and two flags, repeats included.
FlagLists == UNION {[1..k -> ResolverFlags] : k \in 1..2}

\* Lines for the inside of a block: well-formed field lines, and lines the
\* scan rejects, ignores or panics on.
BlockLines ==
    {FlagsLine(fs) : fs \in FlagLists}
    \cup {TestFlagsLine, FlagsBogus, FlagsHalfBogus}
    \cup {IfIndexLine(15, "en0"), IfIndexLine(3, "lo0"), IfIndexNoIndex}
    \cup {ScalarLine("reach", <<"0x00000002">>), ScalarLine("reach", <<"0x00000000">>)}
    \cup {ScalarLine("order", <<"1">>), ScalarLine("order", <<"2">>),
          ScalarLine("order", <<"first">>)}
    \cup {ScalarLine("domain", <<"local">>), ScalarLine("domain", <<"example.com">>)}
    \cup {ScalarLine("timeout", <<"3">>), ScalarLine("timeout", <<"15">>)}
    \cup {ScalarLine("options", <<"mdns">>), ScalarLine("options", <<"pdns">>)}
    \cup {SearchDomain0, Garbage, IndentedResolver, ResolverNoIndex}
    \cup {Nameserver0, Nameserver2, Nameserver2Other}

\* Every line an input is made of.
Alphabet ==
    UNION {{c[i] : i \in 1..Len(c)} : c \in Chunks} \cup BlockLines

\* What the scan reads off a line, for every line of the inputs: the
\* keyword of the else-if chain, the resolver index and the value each
\* field branch decodes.
Decoded ==
    [l \in Alphabet |->
        [keyword |-> FieldKeyword(l),
         resolver_index |-> ResolverIndex(l),
         nameserver |-> DecodeNameserver(l),
         search_domain |-> Last(Split(l, " ")),
         if_index |-> InterfaceIndexFromStr(Trim(l)),
         flags |-> DecodeFlags(l),
         scalar |-> ScalarValue(l),
         number |-> ParseUsize(ScalarValue(l))]]

-----------------------------------------------------------------------------
(* Resolver *)

\* Resolver::new(id): Default::default() with the id set.
NewResolver(id) ==
    [id |-> id, search_domains |-> <<>>, nameservers |-> <<>>,
     if_index |-> None, flags |-> <<>>, reach |-> None, order |-> None,
     domain |-> None, timeout |-> None, options |-> None]

\* Mutant: an address already stored under the key is kept (entry().or_insert).
MapInsertKeepsFirst(m, k, v) ==
    [x \in (DOMAIN m) \cup {k} |-> IF x \in DOMAIN m THEN m[x] ELSE v]

\* HashMap::insert
MapInsert(m, k, v) ==
    [x \in (DOMAIN m) \cup {k} |-> IF x = k THEN v ELSE m[x]]

\* The nameserver branch.
SetNameserver(r, line) ==
    LET d == Decoded[line].nameserver
    IN  IF d[1] = "Ok"
        THEN <<"Ok", [r EXCEPT !.nameservers =
                         MapInsert(@, d[2].ns_id, d[2].nameserver)]>>
        ELSE d

\* The search domain branch: the last space-separated piece of the
\* untrimmed line is pushed.
PushSearchDomain(r, line) ==
    <<"Ok", [r EXCEPT !.search_domains = Append(@, Decoded[line].search_domain)]>>

\* The if_index branch.
SetIfIndex(r, line) ==
    LET d == Decoded[line].if_index
    IN  IF d[1] = "Ok" THEN <<"Ok", [r EXCEPT !.if_index = Some(d[2])]>> ELSE d

\* Mutant: a later flags line adds to the flags already set.
SetFlagsAppends(r, line) ==
    LET d == Decoded[line].flags
    IN  IF d # None THEN <<"Ok", [r EXCEPT !.flags = @ \o d[1]]>> ELSE <<"Ok", r>>

\* The flags branch: the assignment happens only under if let Some(flags).
SetFlags(r, line) ==
    LET d == Decoded[line].flags
    IN  IF d # None THEN <<"Ok", [r EXCEPT !.flags = d[1]]>> ELSE <<"Ok", r>>

\* The reach, options and domain branches.
SetReach(r, line) == <<"Ok", [r EXCEPT !.reach = Some(Decoded[line].scalar)]>>
SetOptions(r, line) == <<"Ok", [r EXCEPT !.options = Some(Decoded[line].scalar)]>>
SetDomain(r, line) == <<"Ok", [r EXCEPT !.domain = Some(Decoded[line].scalar)]>>

\* The order and timeout branches: a failed parse returns Err through ?.
SetOrder(r, line) ==
    LET n == Decoded[line].number
    IN  IF n = None THEN <<"Err">> ELSE <<"Ok", [r EXCEPT !.order = n]>>

SetTimeout(r, line) ==
    LET n == Decoded[line].number
    IN  IF n = None THEN <<"Err">> ELSE <<"Ok", [r EXCEPT !.timeout = n]>>

\* The else-if chain of field branches applied to the scratch record.
ApplyField(r, line) ==
    LET k == Decoded[line].keyword
    IN  CASE k = 1 -> SetNameserver(r, line)
          [] k = 2 -> PushSearchDomain(r, line)
          [] k = 3 -> SetIfIndex(r, line)
          [] k = 4 -> SetFlags(r, line)
          [] k = 5 -> SetReach(r, line)
          [] k = 6 -> SetOrder(r, line)
          [] k = 7 -> SetTimeout(r, line)
          [] k = 8 -> SetOptions(r, line)
          [] k = 9 -> SetDomain(r, line)

-----------------------------------------------------------------------------
(* parse_text *)

\* Vec::get: the line at a position counted from 0, None past the end.
LineAt(i) == IF i \in 0..(Len(lines) - 1) THEN Some(lines[i + 1]) ELSE None

\* The line the loop body works on: the Some(line) of lines.get(line_index).
CurLine == LineAt(line_index)[1]

\* Mutant: the loop runs until the cursor equals the number of lines.
InLoopUntilEqual == result = "running" /\ line_index # Len(lines)

\* The while condition, in a call that has not returned.
InLoop == result = "running" /\ line_index < Len(lines)

IsSectionHeader(line) == Trim(line) \in {GlobalHeader, ScopedHeader}
IsResolverLine(line) == StartsWith(line, <<"resolver">>)

\* Mutant: the record is put in front of the earlier ones.
PushFront(v, x) == <<x>> \o v

\* Vec::push
Push(v, x) == Append(v, x)

\* A section header: state and parent are set, the next line is skipped.
\* Mutant: a header read inside an open block leaves the block open.
HeaderStateKeepsOpenBlock(line) ==
    IF state \in {"Resolver", "ScopedResolver"} THEN state
    ELSE IF Trim(line) = GlobalHeader THEN "DnsConfig" ELSE "ScopedDnsConfig"

\* The state a section header sets.
HeaderState(line) ==
    IF Trim(line) = GlobalHeader THEN "DnsConfig" ELSE "ScopedDnsConfig"

\* Mutant: both headers record the global section as the parent.
HeaderParentAlwaysGlobal(line) == "DnsConfig"

\* Mutant: a header leaves the recorded parent as it was.
HeaderParentUnset(line) == parent_state

\* The parent state a section header records.
HeaderParent(line) ==
    IF Trim(line) = GlobalHeader THEN "DnsConfig" ELSE "ScopedDnsConfig"

\* Mutant: the header branch continues without moving the cursor.
AfterHeaderStays(i) == i

\* Mutant: the header branch moves the cursor to the next line only.
AfterHeaderNextLine(i) == i + 1

\* The cursor after a section header: line_index += 2.
AfterHeader(i) == i + 2

SectionHeader ==
    /\ InLoop
    /\ IsSectionHeader(CurLine)
    /\ state' = HeaderState(CurLine)
    /\ parent_state' = HeaderParent(CurLine)
    /\ line_index' = AfterHeader(line_index)
    /\ UNCHANGED <<lines, current_resolver, dns_config, scoped_dns_config, result>>

\* Mutant: a header inside an open global block starts the next block.
ResolverArmNested(st) ==
    CASE st \in {"DnsConfig", "Resolver"} -> "Resolver"
      [] st = "ScopedDnsConfig" -> "ScopedResolver"
      [] OTHER -> "Err"

\* match state of the resolver branch: the state a header moves to, or Err.
ResolverArm(st) ==
    CASE st = "DnsConfig" -> "Resolver"
      [] st = "ScopedDnsConfig" -> "ScopedResolver"
      [] OTHER -> "Err"

\* A line starting with "resolver": the index is parsed first, then the
\* state decides between opening a block and returning Err.
\* Mutant: a resolver header renumbers the scratch record and keeps its fields.
StartBlockKeepsFields(r, id) == [r EXCEPT !.id = id]

\* The record a resolver header starts: the scratch record is replaced.
StartBlock(r, id) == NewResolver(id)

ResolverHeader ==
    /\ InLoop
    /\ ~IsSectionHeader(CurLine)
    /\ IsResolverLine(CurLine)
    /\ LET idx == Decoded[CurLine].resolver_index
       IN  IF idx[1] = "Panic"
           THEN /\ result' = "panic"
                /\ UNCHANGED <<line_index, state, current_resolver>>
           ELSE IF ResolverArm(state) # "Err"
           THEN /\ state' = ResolverArm(state)
                /\ current_resolver' = StartBlock(current_resolver, idx[2])
                /\ line_index' = line_index + 1
                /\ UNCHANGED result
           ELSE /\ result' = "Err"
                /\ UNCHANGED <<line_index, state, current_resolver>>
    /\ UNCHANGED <<lines, parent_state, dns_config, scoped_dns_config>>

\* A line whose trimmed text starts with a field keyword, in any state.
FieldLine ==
    /\ InLoop
    /\ ~IsSectionHeader(CurLine)
    /\ ~IsResolverLine(CurLine)
    /\ Decoded[CurLine].keyword # 0
    /\ LET d == ApplyField(current_resolver, CurLine)
       IN  IF d[1] = "Ok"
           THEN /\ current_resolver' = d[2]
                /\ line_index' = line_index + 1
                /\ UNCHANGED result
           ELSE /\ result' = (IF d[1] = "Err" THEN "Err" ELSE "panic")
                /\ UNCHANGED <<current_resolver, line_index>>
    /\ UNCHANGED <<lines, state, parent_state, dns_config, scoped_dns_config>>

\* Mutant: an empty line in the global section emits the scratch record.
BlankArmSectionPushes(st) ==
    CASE st \in {"Resolver", "DnsConfig"} -> "push_global"
      [] st = "ScopedResolver" -> "push_scoped"
      [] st = "ScopedDnsConfig" -> "nothing"
      [] OTHER -> "Err"

\* Mutant: an empty line before any section is ignored.
BlankArmIdleIgnored(st) ==
    CASE st = "Resolver" -> "push_global"
      [] st = "ScopedResolver" -> "push_scoped"
      [] OTHER -> "nothing"

\* Mutant: an empty line in the scoped section emits the scratch record.
BlankArmScopedSectionPushes(st) ==
    CASE st = "Resolver" -> "push_global"
      [] st \in {"ScopedResolver", "ScopedDnsConfig"} -> "push_scoped"
      [] st = "DnsConfig" -> "nothing"
      [] OTHER -> "Err"

\* match state of the empty-line branch.
BlankArm(st) ==
    CASE st = "Resolver" -> "push_global"
      [] st = "ScopedResolver" -> "push_scoped"
      [] st \in {"DnsConfig", "ScopedDnsConfig"} -> "nothing"
      [] OTHER -> "Err"

\* A line that is empty after trimming.
BlankLine ==
    /\ InLoop
    /\ ~IsSectionHeader(CurLine)
    /\ ~IsResolverLine(CurLine)
    /\ Decoded[CurLine].keyword = 0
    /\ Trim(CurLine) = <<>>
    /\ CASE BlankArm(state) = "push_global" ->
              /\ state' = parent_state
              /\ dns_config' = Push(dns_config, current_resolver)
              /\ line_index' = line_index + 1
              /\ UNCHANGED <<scoped_dns_config, result>>
         [] BlankArm(state) = "push_scoped" ->
              /\ state' = parent_state
              /\ scoped_dns_config' = Push(scoped_dns_config, current_resolver)
              /\ line_index' = line_index + 1
              /\ UNCHANGED <<dns_config, result>>
         [] BlankArm(state) = "nothing" ->
              /\ line_index' = line_index + 1
              /\ UNCHANGED <<state, dns_config, scoped_dns_config, result>>
         [] OTHER ->
              /\ result' = "Err"
              /\ UNCHANGED <<state, dns_config, scoped_dns_config, line_index>>
    /\ UNCHANGED <<lines, parent_state, current_resolver>>

\* Mutant: a line that matches nothing is skipped.
UnexpectedLineSkipped ==
    /\ InLoop
    /\ ~IsSectionHeader(CurLine)
    /\ ~IsResolverLine(CurLine)
    /\ Decoded[CurLine].keyword = 0
    /\ Trim(CurLine) # <<>>
    /\ line_index' = line_index + 1
    /\ UNCHANGED <<lines, result, state, parent_state, current_resolver,
                   dns_config, scoped_dns_config>>

\* The final else of the chain.
UnexpectedLine ==
    /\ InLoop
    /\ ~IsSectionHeader(CurLine)
    /\ ~IsResolverLine(CurLine)
    /\ Decoded[CurLine].keyword = 0
    /\ Trim(CurLine) # <<>>
    /\ result' = "Err"
    /\ UNCHANGED <<lines, line_index, state, parent_state, current_resolver,
                   dns_config, scoped_dns_config>>

\* Mutant: the global rule asks for nameservers, as the scoped rule does.
KeepTrailingGlobalNonEmpty(r) ==
    r.id # 0 /\ DOMAIN r.nameservers # {} /\ r.if_index # None

\* Mutant: the scoped rule does not ask for an interface index.
KeepTrailingScopedNoIfIndex(r) ==
    r.id # 0 /\ DOMAIN r.nameservers # {}

\* The trailing-record conditions of the final match.
KeepTrailingGlobal(r) ==
    r.id # 0 /\ DOMAIN r.nameservers = {} /\ r.if_index # None

KeepTrailingScoped(r) ==
    r.id # 0 /\ DOMAIN r.nameservers # {} /\ r.if_index # None

\* The code after the loop: the final match, then Ok(dns_config).
Finalize ==
    /\ result = "running"
    /\ ~(line_index < Len(lines))
    /\ dns_config' = (IF state = "Resolver" /\ KeepTrailingGlobal(current_resolver)
                      THEN Push(dns_config, current_resolver)
                      ELSE dns_config)
    /\ scoped_dns_config' =
          (IF state = "ScopedResolver" /\ KeepTrailingScoped(current_resolver)
           THEN Push(scoped_dns_config, current_resolver)
           ELSE scoped_dns_config)
    /\ result' = "Ok"
    /\ UNCHANGED <<lines, line_index, state, parent_state, current_resolver>>

Next ==
    \/ SectionHeader
    \/ ResolverHeader
    \/ FieldLine
    \/ BlankLine
    \/ UnexpectedLine
    \/ Finalize

-----------------------------------------------------------------------------
(* Calls *)

\* A sequence of at most MaxChunks chunks.
IsChunkInput(ls) == \E cs \in SeqsUpTo(Chunks, MaxChunks) : ls = Flatten(cs)

\* One global block of at most MaxFields lines, closed by a blank line.
IsFieldInput(ls) ==
    \E fs \in SeqsUpTo(BlockLines, MaxFields) :
        ls = <<GlobalHeader, Blank, Resolver1>> \o fs \o <<Blank>>

\* The state on entry to the scan loop: the lines collected, the cursor at
\* 0, both states Idle, the scratch record Resolver::new(0), no output.
Init ==
    /\ IsChunkInput(lines) \/ IsFieldInput(lines)
    /\ line_index = 0
    /\ state = "Idle"
    /\ parent_state = "Idle"
    /\ current_resolver = NewResolver(0)
    /\ dns_config = <<>>
    /\ scoped_dns_config = <<>>
    /\ result = "running"

Spec == Init /\ [][Next]_vars

\* The inputs of the runs checked for termination: at most MaxFairChunks
\* chunks.
MaxFairChunks == 3

FairInit ==
    /\ \E cs \in SeqsUpTo(Chunks, MaxFairChunks) : lines = Flatten(cs)
    /\ line_index = 0
    /\ state = "Idle"
    /\ parent_state = "Idle"
    /\ current_resolver = NewResolver(0)
    /\ dns_config = <<>>
    /\ scoped_dns_config = <<>>
    /\ result = "running"

\* The call runs to its return: parse_text is one synchronous function, so
\* a step that can be taken is taken.
FairSpec == FairInit /\ [][Next]_vars /\ WF_vars(Next)

-----------------------------------------------------------------------------
(* Properties *)

Failed == result \in {"Err", "panic"}
Ids(v) == [i \in 1..Len(v) |-> v[i].id]
SectionStates == {"DnsConfig", "ScopedDnsConfig"}
ResolverStates == {"Resolver", "ScopedResolver"}

\* Field lines a well-formed block may hold.
WellFormedFieldLines ==
    (BlockLines \ {FlagsBogus, FlagsHalfBogus, IfIndexNoIndex,
                   ScalarLine("order", <<"first">>), Garbage, IndentedResolver,
                   ResolverNoIndex})
    \cup {Nameserver0}

\* Position of the blank line that closes the block whose header is ls[1]
\* (0 when a line that is no well-formed field line comes first, or none).
RECURSIVE BlockEnd(_, _)
BlockEnd(ls, j) ==
    IF j > Len(ls) THEN 0
    ELSE IF ls[j] = Blank THEN j
    ELSE IF ls[j] \in WellFormedFieldLines THEN BlockEnd(ls, j + 1)
    ELSE 0

\* The report grammar read off the input alone: a sequence of section
\* headers, each followed by its blank separator line, and of blocks (a
\* header "resolver #n", field lines, a blank line) inside a section.
\* Gives the ids of the global and of the scoped blocks in input order.
RECURSIVE Report(_, _, _, _)
Report(ls, section, g, s) ==
    IF ls = <<>> THEN [ok |-> TRUE, global |-> g, scoped |-> s]
    ELSE IF ls[1] \in {GlobalHeader, ScopedHeader}
    THEN IF Len(ls) >= 2 /\ ls[2] = Blank
         THEN Report(SubSeq(ls, 3, Len(ls)),
                     IF ls[1] = GlobalHeader THEN "global" ELSE "scoped", g, s)
         ELSE [ok |-> FALSE]
    ELSE IF /\ section # "none"
            /\ \E n \in {0, 1, 2} : ls[1] = ResolverLine(n)
            /\ BlockEnd(ls, 2) # 0
    THEN LET n == CHOOSE n \in {0, 1, 2} : ls[1] = ResolverLine(n)
             rest == SubSeq(ls, BlockEnd(ls, 2) + 1, Len(ls))
         IN  IF section = "global"
             THEN Report(rest, section, Append(g, n), s)
             ELSE Report(rest, section, g, Append(s, n))
    ELSE [ok |-> FALSE]

WellFormedReport == Report(lines, "none", <<>>, <<>>)

\* C1: for an input made of section headers, each followed by its separator
\* line, and of blank-terminated resolver blocks, the parse does not fail and
\* returns one record per global block and one per scoped block, in input
\* order, each with the id of its own header.
C1_WellFormedBlocks ==
    WellFormedReport.ok =>
        /\ ~Failed
        /\ result = "Ok" =>
              /\ Ids(dns_config) = WellFormedReport.global
              /\ Ids(scoped_dns_config) = WellFormedReport.scoped

\* C1 witness: a well-formed input with two global blocks of different ids
\* and a scoped block has been parsed to the end.
C1_Witness ==
    /\ WellFormedReport.ok
    /\ result = "Ok"
    /\ Len(dns_config) = 2 /\ dns_config[1].id # dns_config[2].id
    /\ Len(scoped_dns_config) = 1

\* The loop is over and the final match has not run yet.
AtEnd == result = "running" /\ ~(line_index < Len(lines))

\* The comma-separated pieces after the last colon of a trimmed line.
FlagPieces(line) == Split(Last(Split(Trim(line), ":")), ",")

\* A flags line with a piece that is none of the three flag names.
InvalidFlagsLine(line) ==
    /\ StartsWith(Trim(line), <<"flags">>)
    /\ \E i \in 1..Len(FlagPieces(line)) :
          Trim(FlagPieces(line)[i]) \notin
             {RequestARecordsText, RequestAAAARecordsText, ScopedText}

\* The cursor positions (counted from 0) the scan visits when it does not
\* fail, read off the input alone.
RECURSIVE CursorPath(_)
CursorPath(i) ==
    IF i >= Len(lines) THEN {}
    ELSE {i} \cup CursorPath(IF IsSectionHeader(lines[i + 1]) THEN i + 2 ELSE i + 1)

\* C2: a flags line with a piece that is not exactly one of the three flag
\* names makes the parse fail: a call that returns Ok (a DNSConfig) has read
\* no such line.
C2_InvalidFlagsFail ==
    result = "Ok" =>
        \A i \in CursorPath(0) : ~InvalidFlagsLine(lines[i + 1])

\* C3: a line beginning with the resolver keyword that is read in Idle,
\* Resolver or ScopedResolver makes the parse fail; such a line is accepted
\* (the parse goes on) only in DnsConfig or ScopedDnsConfig, where it opens
\* a block.
C3_ResolverHeaderOnlyInSection ==
    [][(InLoop /\ ~IsSectionHeader(CurLine)
              /\ StartsWith(Trim(CurLine), <<"resolver">>)) =>
          /\ state \in {"Idle", "Resolver", "ScopedResolver"} =>
                Failed' /\ UNCHANGED <<state, dns_config, scoped_dns_config>>
          /\ ~Failed' =>
                /\ state \in SectionStates
                /\ state' = (IF state = "DnsConfig" THEN "Resolver"
                             ELSE "ScopedResolver")]_vars

\* C3 witness: the parse has failed on a resolver header read inside an open
\* global block.
C3_Witness ==
    /\ result = "Err"
    /\ state = "Resolver"
    /\ line_index < Len(lines)
    /\ CurLine = Resolver1

\* C4: at the end of the input in state Resolver the call returns Ok, and the
\* scratch record is appended as the last global record exactly when its id
\* is nonzero, it has no nameserver and it has an interface index; otherwise
\* the global sequence is returned as it is.
C4_TrailingGlobal ==
    [][(AtEnd /\ state = "Resolver") =>
          /\ result' = "Ok"
          /\ scoped_dns_config' = scoped_dns_config
          /\ dns_config' =
                (IF /\ current_resolver.id # 0
                    /\ current_resolver.nameservers = <<>>
                    /\ current_resolver.if_index # None
                 THEN Append(dns_config, current_resolver)
                 ELSE dns_config)]_vars

\* C4 witness: the input ended inside a global block with an interface index
\* and no nameserver, after an earlier block, and the block was kept.
C4_Witness ==
    /\ result = "Ok"
    /\ state = "Resolver"
    /\ current_resolver.id # 0
    /\ current_resolver.nameservers = <<>>
    /\ current_resolver.if_index # None
    /\ Len(dns_config) = 2
    /\ dns_config[2] = current_resolver

\* C5: at the end of the input in state ScopedResolver the scratch record is
\* appended as the last scoped record exactly when its id is nonzero, it has
\* a nameserver and it has an interface index; at the end of the input in a
\* state that is no resolver state nothing is appended.
C5_TrailingScoped ==
    [][AtEnd =>
          /\ result' = "Ok"
          /\ state = "ScopedResolver" =>
                /\ dns_config' = dns_config
                /\ scoped_dns_config' =
                      (IF /\ current_resolver.id # 0
                          /\ current_resolver.nameservers # <<>>
                          /\ current_resolver.if_index # None
                       THEN Append(scoped_dns_config, current_resolver)
                       ELSE scoped_dns_config)
          /\ state \notin ResolverStates =>
                UNCHANGED <<dns_config, scoped_dns_config>>]_vars

\* C5 witness: the input ended inside a scoped block with a nameserver and an
\* interface index, and the block was kept.
C5_Witness ==
    /\ result = "Ok"
    /\ state = "ScopedResolver"
    /\ current_resolver.id # 0
    /\ current_resolver.nameservers # <<>>
    /\ current_resolver.if_index # None
    /\ scoped_dns_config # <<>>
    /\ scoped_dns_config[Len(scoped_dns_config)] = current_resolver

\* The resolver headers the scan has gone past: the blocks opened so far.
BlocksOpened ==
    Cardinality({i \in CursorPath(0) :
                    /\ i < line_index
                    /\ ~IsSectionHeader(lines[i + 1])
                    /\ IsResolverLine(lines[i + 1])})

\* One when a block is open, zero when none is.
BlocksOpen == IF state \in ResolverStates /\ result # "Ok" THEN 1 ELSE 0

\* C6: a record enters an output sequence only when its block closes: every
\* step that changes an output sequence appends the scratch record, either
\* on an empty line read in Resolver/ScopedResolver (and the state returns to
\* a section) or at the end of the input under the trailing-record rule; and
\* while a block is open the records emitted are fewer than the blocks
\* opened, so the open block's record is in no output sequence.
C6_EmittedOnlyOnClose ==
    /\ [](Len(dns_config) + Len(scoped_dns_config) + BlocksOpen <= BlocksOpened)
    /\ [][(dns_config' # dns_config \/ scoped_dns_config' # scoped_dns_config) =>
            \/ /\ InLoop /\ Trim(CurLine) = <<>> /\ state = "Resolver"
               /\ dns_config' = Append(dns_config, current_resolver)
               /\ scoped_dns_config' = scoped_dns_config
               /\ state' \in SectionStates
            \/ /\ InLoop /\ Trim(CurLine) = <<>> /\ state = "ScopedResolver"
               /\ scoped_dns_config' = Append(scoped_dns_config, current_resolver)
               /\ dns_config' = dns_config
               /\ state' \in SectionStates
            \/ /\ AtEnd /\ state = "Resolver"
               /\ current_resolver.id # 0
               /\ current_resolver.nameservers = <<>>
               /\ current_resolver.if_index # None
               /\ dns_config' = Append(dns_config, current_resolver)
               /\ scoped_dns_config' = scoped_dns_config
               /\ result' = "Ok"
            \/ /\ AtEnd /\ state = "ScopedResolver"
               /\ current_resolver.id # 0
               /\ current_resolver.nameservers # <<>>
               /\ current_resolver.if_index # None
               /\ scoped_dns_config' = Append(scoped_dns_config, current_resolver)
               /\ dns_config' = dns_config
               /\ result' = "Ok"]_vars

\* C6 witness: a second global block is open and already holds an interface
\* index, while the global sequence holds the first block only.
C6_Witness ==
    /\ result = "running"
    /\ state = "Resolver"
    /\ current_resolver.if_index # None
    /\ Len(dns_config) = 1
    /\ BlocksOpened = 2

\* C7: an empty line read in Idle makes the parse fail; an empty line read in
\* DnsConfig or ScopedDnsConfig changes nothing but the cursor.
C7_BlankLine ==
    [][(InLoop /\ Trim(CurLine) = <<>>) =>
          /\ state = "Idle" => result' = "Err"
          /\ state \in SectionStates =>
                /\ UNCHANGED <<state, parent_state, dns_config,
                               scoped_dns_config, current_resolver, result>>
                /\ line_index' = line_index + 1]_vars

\* C7 witness: an empty line was read in the global section (the line after
\* the header's separator) and the scan went on in the same state.
C7_Witness ==
    /\ result = "running"
    /\ state = "DnsConfig"
    /\ line_index = 3
    /\ lines[1] = GlobalHeader
    /\ lines[3] = Blank
    /\ dns_config = <<>>

\* The nine field keywords.
KnownKeywords ==
    { <<"nameserver">>, <<"search", " ", "domain">>, <<"if_index">>, <<"flags">>,
      <<"reach">>, <<"order">>, <<"timeout">>, <<"options">>, <<"domain">> }

\* A line that is no section header, does not begin with the resolver
\* keyword, is not blank and starts with none of the nine keywords.
UnknownLine(line) ==
    /\ Trim(line) \notin {GlobalHeader, ScopedHeader}
    /\ ~StartsWith(line, <<"resolver">>)
    /\ Trim(line) # <<>>
    /\ \A kw \in KnownKeywords : ~StartsWith(Trim(line), kw)

\* C8: a line the scan reads that is no section header, no resolver line, not
\* blank and starts with none of the nine keywords ends the call with Err at
\* that line; and a call that has failed takes no further step.
C8_UnknownLineFails ==
    [][/\ (InLoop /\ UnknownLine(CurLine)) =>
             /\ result' = "Err"
             /\ UNCHANGED <<line_index, state, dns_config, scoped_dns_config>>
       /\ Failed => UNCHANGED vars]_vars

\* C8 witness: the parse has failed on an unknown line read inside an open
\* block.
C8_Witness ==
    /\ result = "Err"
    /\ state \in ResolverStates
    /\ line_index < Len(lines)
    /\ CurLine = Garbage

\* C9: a flags line that lists valid flag names decodes to one flag per name,
\* in the order written, repeats kept; the line of test_flags_line gives
\* <<Scoped, RequestARecords, RequestAAAARecords>>.
C9_FlagsInOrder ==
    [][/\ \A fs \in FlagLists :
             (InLoop /\ CurLine = FlagsLine(fs)) =>
                 current_resolver'.flags = fs /\ result' = "running"
       /\ (InLoop /\ CurLine = TestFlagsLine) =>
             /\ current_resolver'.flags =
                   <<"Scoped", "RequestARecords", "RequestAAAARecords">>
             /\ result' = "running"]_vars

\* C9 witness: a flags line naming Scoped twice has been read and the record
\* holds both.
C9_Witness ==
    /\ line_index \in 1..Len(lines)
    /\ lines[line_index] = FlagsLine(<<"Scoped", "Scoped">>)
    /\ current_resolver.flags = <<"Scoped", "Scoped">>

\* What each well-formed field line of the vocabulary writes: the line, the
\* field and the value.
FieldWrites ==
    {<<FlagsLine(fs), "flags", fs>> : fs \in FlagLists}
    \cup {<<TestFlagsLine, "flags",
            <<"Scoped", "RequestARecords", "RequestAAAARecords">>>>}
    \cup {<<IfIndexLine(15, "en0"), "if_index",
            Some([index |-> 15, interface |-> <<"en0">>])>>,
          <<IfIndexLine(3, "lo0"), "if_index",
            Some([index |-> 3, interface |-> <<"lo0">>])>>}
    \cup {<<ScalarLine("reach", <<"0x00000002">>), "reach", Some(<<"0x00000002">>)>>,
          <<ScalarLine("reach", <<"0x00000000">>), "reach", Some(<<"0x00000000">>)>>}
    \cup {<<ScalarLine("order", <<"1">>), "order", Some(1)>>,
          <<ScalarLine("order", <<"2">>), "order", Some(2)>>}
    \cup {<<ScalarLine("domain", <<"local">>), "domain", Some(<<"local">>)>>,
          <<ScalarLine("domain", <<"example.com">>), "domain", Some(<<"example.com">>)>>}
    \cup {<<ScalarLine("timeout", <<"3">>), "timeout", Some(3)>>,
          <<ScalarLine("timeout", <<"15">>), "timeout", Some(15)>>}
    \cup {<<ScalarLine("options", <<"mdns">>), "options", Some(<<"mdns">>)>>,
          <<ScalarLine("options", <<"pdns">>), "options", Some(<<"pdns">>)>>}

OverwrittenFields ==
    {"flags", "if_index", "reach", "order", "domain", "timeout", "options"}

\* The value the last line of blk that writes field gives it (dflt if none).
LastWrite(blk, field, dflt) ==
    LET at == {i \in 1..Len(blk) :
                  \E w \in FieldWrites : w[1] = blk[i] /\ w[2] = field}
    IN  IF at = {} THEN dflt
        ELSE LET last == CHOOSE i \in at : \A j \in at : j <= i
             IN  (CHOOSE w \in FieldWrites : w[1] = blk[last] /\ w[2] = field)[3]

\* The field lines of an input that is one global block "resolver #1".
OnlyBlock == SubSeq(lines, 4, Len(lines) - 1)

IsOneBlockOfWrites ==
    /\ Len(lines) >= 4
    /\ SubSeq(lines, 1, 3) = <<GlobalHeader, Blank, Resolver1>>
    /\ lines[Len(lines)] = Blank
    /\ \A i \in 1..Len(OnlyBlock) : \E w \in FieldWrites : w[1] = OnlyBlock[i]

\* C10: in a block of well-formed field lines a repeated field line is not
\* rejected, and the emitted record holds, for flags, if_index, reach, order,
\* domain, timeout and options, the value of the last line of the block that
\* writes the field (flags replaced, not appended).
C10_LastWriteWins ==
    IsOneBlockOfWrites =>
        /\ ~Failed
        /\ result = "Ok" =>
              /\ Len(dns_config) = 1
              /\ \A f \in OverwrittenFields :
                    dns_config[1][f] = LastWrite(OnlyBlock, f, NewResolver(1)[f])

\* C10 witness: a block with two flags lines was closed and the record holds
\* the flags of the second line only.
C10_Witness ==
    /\ result = "Ok"
    /\ Len(lines) = 6
    /\ IsOneBlockOfWrites
    /\ lines[4] = FlagsLine(<<"RequestARecords", "RequestAAAARecords">>)
    /\ lines[5] = FlagsLine(<<"Scoped">>)
    /\ Len(dns_config) = 1
    /\ dns_config[1].flags = <<"Scoped">>

\* ---- C11 ----

\* The nameserver lines of the input, with the key and the address each
\* one carries.
NameserverWrites ==
    { <<Nameserver0, 0, <<"10.0.0.1">> >>,
      <<Nameserver2, 2, <<"10.0.0.1">> >>,
      <<Nameserver2Other, 2, <<"fe80", ":", ":", "1">> >> }

\* C11: a line nameserver[k] : <ip> read inside a resolver block is
\* accepted, maps key k to that address whatever keys the record already
\* holds (k need not follow them), leaves the entry of every other key as
\* it was, and replaces the address an earlier line of the block stored
\* under the same k.
C11_NameserverInsert ==
    [][\A w \in NameserverWrites :
          (InLoop /\ state \in ResolverStates /\ CurLine = w[1])
          => /\ result' = "running"
             /\ DOMAIN current_resolver'.nameservers
                  = DOMAIN current_resolver.nameservers \cup {w[2]}
             /\ current_resolver'.nameservers[w[2]] = w[3]
             /\ \A k \in DOMAIN current_resolver.nameservers \ {w[2]} :
                   current_resolver'.nameservers[k]
                     = current_resolver.nameservers[k]]_vars

\* A block whose second nameserver line repeated key 2 with another address
\* has been emitted with the later address alone.
C11_Witness ==
    /\ result = "Ok"
    /\ Len(lines) = 6
    /\ lines[4] = Nameserver2
    /\ lines[5] = Nameserver2Other
    /\ Len(dns_config) = 1
    /\ DOMAIN dns_config[1].nameservers = {2}
    /\ dns_config[1].nameservers[2] = <<"fe80", ":", ":", "1">>

\* ---- C13 ----

\* The input with the line after every section header the scan reads
\* replaced by a blank line (a blank line is added after a header that is
\* the last line).
RECURSIVE SkipNormalized(_)
SkipNormalized(ls) ==
    IF ls = <<>> THEN <<>>
    ELSE IF IsSectionHeader(ls[1])
    THEN <<ls[1], Blank>> \o SkipNormalized(SubSeq(ls, 3, Len(ls)))
    ELSE <<ls[1]>> \o SkipNormalized(SubSeq(ls, 2, Len(ls)))

SkipNormalizedReport == Report(SkipNormalized(lines), "none", <<>>, <<>>)

\* C13: the line after a section header that is read is never inspected.
\* The header step moves the cursor from h to h + 2 and changes nothing but
\* the state; the cursor never rests on such a line; and whatever the line
\* holds, the parse succeeds and returns the same blocks as it does for the
\* input with a blank line in its place.
C13_HeaderSkipsNextLine ==
    /\ [][(InLoop /\ IsSectionHeader(CurLine)) =>
            /\ line_index' = line_index + 2
            /\ result' = "running"
            /\ state' \in SectionStates
            /\ UNCHANGED <<current_resolver, dns_config, scoped_dns_config>>]_vars
    /\ [](line_index < Len(lines) => line_index \in CursorPath(0))
    /\ [](SkipNormalizedReport.ok =>
            /\ ~Failed
            /\ result = "Ok" =>
                  /\ Ids(dns_config) = SkipNormalizedReport.global
                  /\ Ids(scoped_dns_config) = SkipNormalizedReport.scoped)

\* A parse has succeeded and returned the one block of an input whose
\* global header is followed by a line that is an error wherever it is read.
C13_Witness ==
    /\ result = "Ok"
    /\ lines = <<GlobalHeader, Garbage, Resolver1, Blank>>
    /\ Ids(dns_config) = <<1>>
    /\ scoped_dns_config = <<>>

\* ---- C14 ----

\* C14: the lookup of the line at the cursor never misses. Whenever the
\* loop body runs, the cursor is below the number of lines, although a
\* section header on the last line moves the cursor one past the number of
\* lines (and never further).
C14_LineLookupNeverFails ==
    /\ InLoop => LineAt(line_index) # None
    /\ line_index <= Len(lines) + 1

\* The last line was a section header: the cursor went past the end of the
\* input and the call returned Ok.
C14_Witness ==
    /\ result = "Ok"
    /\ line_index = Len(lines) + 1
    /\ IsSectionHeader(lines[Len(lines)])

\* ---- C15 ----

\* C15: the call returns on every input. Every step of a running call
\* either returns (Ok, an error or a panic) or moves the cursor forward by 1
\* or by 2, and the call eventually returns.
C15_Terminates ==
    /\ [][result = "running" =>
            \/ result' # "running"
            \/ /\ line_index' \in {line_index + 1, line_index + 2}
               /\ line_index < Len(lines)]_vars
    /\ <>(result # "running")

\* A call has returned Ok after reading twelve lines, section headers
\* (cursor + 2) and other lines (cursor + 1) among them.
C15_Witness ==
    /\ result = "Ok"
    /\ Len(lines) = 12
    /\ line_index = 12
    /\ Len(dns_config) + Len(scoped_dns_config) = 3

\* ---- C16 ----

\* C16: the recorded parent is the section of the current state: it is
\* DnsConfig in DnsConfig and Resolver, ScopedDnsConfig in ScopedDnsConfig
\* and ScopedResolver. So an empty line that closes a block returns to the
\* section the block was opened in, and no step taken in the global section
\* or a global block changes the scoped sequence, nor a step taken in the
\* scoped section or a scoped block the global one.
C16_ParentMatchesState ==
    /\ [](/\ state \in {"DnsConfig", "Resolver"} => parent_state = "DnsConfig"
          /\ state \in {"ScopedDnsConfig", "ScopedResolver"}
                => parent_state = "ScopedDnsConfig")
    /\ [][/\ (state = "Resolver" /\ state' # state) =>
               state' \in {"DnsConfig", "ScopedDnsConfig"}
          /\ (state = "Resolver" /\ InLoop /\ Trim(CurLine) = <<>>) =>
               state' = "DnsConfig"
          /\ (state = "ScopedResolver" /\ InLoop /\ Trim(CurLine) = <<>>) =>
               state' = "ScopedDnsConfig"
          /\ state \in {"DnsConfig", "Resolver"} =>
               scoped_dns_config' = scoped_dns_config
          /\ state \in {"ScopedDnsConfig", "ScopedResolver"} =>
               dns_config' = dns_config]_vars

\* A scoped block opened after a global block has been closed: the scan is
\* back in the scoped section and each sequence holds its own block.
C16_Witness ==
    /\ state = "ScopedDnsConfig"
    /\ parent_state = "ScopedDnsConfig"
    /\ Ids(dns_config) = <<1>>
    /\ Ids(scoped_dns_config) = <<2>>
    /\ line_index = Len(lines)

\* ---- C17 ----

\* The positions (from 0) of the resolver headers read so far.
HeadersRead ==
    {i \in CursorPath(0) : /\ i < line_index
                           /\ ~IsSectionHeader(lines[i + 1])
                           /\ IsResolverLine(lines[i + 1])}

\* The header of the block that is open (the last header read).
OpenHeader == CHOOSE h \in HeadersRead : \A i \in HeadersRead : i <= h

\* The field lines lines[i..c] applied in order to record r.
RECURSIVE ApplyFields(_, _, _)
ApplyFields(r, i, c) ==
    IF i > c THEN r ELSE ApplyFields(ApplyField(r, lines[i])[2], i + 1, c)

\* The record of the open block read off the input alone: the empty record
\* with the id of the block's header, then the lines between the header
\* and the cursor.
OwnBlockRecord ==
    ApplyFields(NewResolver(ResolverIndex(lines[OpenHeader + 1])[2]),
                OpenHeader + 2, line_index)

\* C17: a record holds what its own block says and nothing else. While a
\* block is open the scratch record is the empty record of the block's
\* header with the block's field lines applied, and that is the record
\* every emitting step appends; a well-formed field line read outside a
\* block is accepted and changes no output.
C17_RecordFromOwnBlock ==
    /\ [](state \in ResolverStates => current_resolver = OwnBlockRecord)
    /\ [][/\ dns_config' # dns_config =>
               dns_config' = Append(dns_config, OwnBlockRecord)
          /\ scoped_dns_config' # scoped_dns_config =>
               scoped_dns_config' = Append(scoped_dns_config, OwnBlockRecord)
          /\ (InLoop /\ state \notin ResolverStates
                /\ CurLine \in WellFormedFieldLines) =>
               /\ result' = "running"
               /\ line_index' = line_index + 1
               /\ UNCHANGED <<state, dns_config, scoped_dns_config>>]_vars

\* Two global blocks have been emitted, the first with an interface index
\* and the second, whose block has no field line, without any.
C17_Witness ==
    /\ result = "Ok"
    /\ Len(dns_config) = 2
    /\ dns_config[1].if_index # None
    /\ dns_config[2] = NewResolver(1)

\* ---- C18 ----

\* The blocks opened so far that have ended, by the line that ended them:
\* the first line read after the block's header that is a section header
\* or an empty line.
BlockFates ==
    LET path == {i \in CursorPath(0) : i < line_index}
        heads == {i \in path : /\ ~IsSectionHeader(lines[i + 1])
                               /\ IsResolverLine(lines[i + 1])}
        hdrs == {j \in path : IsSectionHeader(lines[j + 1])}
        ends == hdrs \cup {j \in path : Trim(lines[j + 1]) = <<>>}
        Ender(h) == CHOOSE j \in ends : h < j /\ \A k \in ends : h < k => j <= k
        ended == {h \in heads : \E j \in ends : h < j}
    IN  [closed |-> {h \in ended : Ender(h) \notin hdrs},
         discarded |-> {h \in ended : Ender(h) \in hdrs}]

\* The blocks ended by an empty line, and those ended by a section header.
ClosedBlocks == BlockFates.closed
DiscardedBlocks == BlockFates.discarded

\* C18: a section header read while a block is open is accepted, moves the
\* state to the header's section and appends nothing; and the record of a
\* block ended by a section header is in no output sequence at any later
\* point either: the records emitted are those of the blocks closed by an
\* empty line, plus at most the block left open at the end of the input.
C18_HeaderDiscardsOpenBlock ==
    /\ [][(InLoop /\ state \in ResolverStates /\ IsSectionHeader(CurLine)) =>
            /\ result' = "running"
            /\ state' = (IF Trim(CurLine) = GlobalHeader THEN "DnsConfig"
                         ELSE "ScopedDnsConfig")
            /\ UNCHANGED <<dns_config, scoped_dns_config>>]_vars
    /\ [](LET emitted == Len(dns_config) + Len(scoped_dns_config)
          IN  /\ result # "Ok" => emitted = Cardinality(ClosedBlocks)
              /\ result = "Ok" =>
                    /\ emitted >= Cardinality(ClosedBlocks)
                    /\ emitted <= Cardinality(ClosedBlocks) +
                          (IF state \in ResolverStates THEN 1 ELSE 0))

\* The global block of resolver #1 was ended by the scoped header; the call
\* returned Ok with both sequences empty and the record still in scratch.
C18_Witness ==
    /\ result = "Ok"
    /\ DiscardedBlocks # {}
    /\ current_resolver.id = 1
    /\ state = "ScopedDnsConfig"
    /\ dns_config = <<>>
    /\ scoped_dns_config = <<>>

\* ---- C19 ----

\* C19: no block is emitted twice. The records emitted are never more than
\* the resolver headers read; a step that appends a record appends one
\* record, starts in Resolver or ScopedResolver and leaves that state (or
\* ends the call); and outside those two states nothing is appended, so an
\* empty line or the end of the input after a close emits nothing although
\* the scratch record still holds the closed block.
C19_EmittedAtMostOnce ==
    /\ [](Len(dns_config) + Len(scoped_dns_config) <= Cardinality(HeadersRead))
    /\ [][/\ state \notin ResolverStates =>
               UNCHANGED <<dns_config, scoped_dns_config>>
          /\ (dns_config' # dns_config \/ scoped_dns_config' # scoped_dns_config) =>
               /\ Len(dns_config') + Len(scoped_dns_config')
                    = Len(dns_config) + Len(scoped_dns_config) + 1
               /\ state' \notin ResolverStates \/ result' = "Ok"]_vars

\* A second empty line was read after the one that closed the scoped block
\* of resolver #2; the call returned Ok with that record emitted once.
C19_Witness ==
    /\ result = "Ok"
    /\ lines = <<ScopedHeader, Blank, Resolver2, Blank, Blank>>
    /\ current_resolver.id = 2
    /\ Ids(scoped_dns_config) = <<2>>
    /\ dns_config = <<>>

\* ---- C20 ----

\* A section header has been read.
HeaderRead ==
    \E i \in CursorPath(0) : i < line_index /\ IsSectionHeader(lines[i + 1])

\* The call failed on an empty line (the cursor rests on the failing line).
FailedOnEmptyLine ==
    /\ result = "Err"
    /\ line_index < Len(lines)
    /\ Trim(CurLine) = <<>>

\* C20: Idle is the state before the first section header only. No step
\* leads from another state to Idle, the state is Idle exactly as long as
\* no section header has been read, and a call that fails on an empty line
\* has read no section header.
C20_IdleOnlyInitially ==
    /\ [][state # "Idle" => state' # "Idle"]_vars
    /\ [](state = "Idle" <=> ~HeaderRead)
    /\ [](FailedOnEmptyLine => state = "Idle" /\ ~HeaderRead)

\* After the global header a block was closed by an empty line and a second
\* empty line was read: the state is the global section, not Idle, and the
\* call returned Ok.
C20_Witness ==
    /\ result = "Ok"
    /\ lines = <<GlobalHeader, Blank, Resolver1, Blank, Blank>>
    /\ state = "DnsConfig"
    /\ Ids(dns_config) = <<1>>

====
